---- MODULE Spec2Model ----
(***************************************************************************)
(* Model of the reverse proxy server of quic-tunnel                        *)
(* (src/subcommands/reverse_proxy_server.rs):                              *)
(*   - ReverseProxyServerSubCommand::main, the supervisor: validates the   *)
(*     configuration, creates the flume channel and the QUIC endpoint,     *)
(*     spawns five top-level tasks, waits in select! for the first one to  *)
(*     complete, closes the endpoint and aborts the five handles;          *)
(*   - the tunnel acceptor task, which spawns one detached                 *)
(*     handle_quic_connection task per inbound QUIC connection;            *)
(*   - the TCP / UDP / Unix listener tasks (or pending placeholders);      *)
(*   - handle_quic_connection: 0-RTT or 30 s handshake, then the loop that *)
(*     receives a Stream from the channel, opens a bidirectional QUIC      *)
(*     stream and spawns a detached forwarder.                             *)
(* Tasks run on a multi-threaded runtime, so every step of one task        *)
(* interleaves with the steps of the others.                               *)
(***************************************************************************)
EXTENDS Integers, Sequences, FiniteSets, TLC

\* Bounds of the model (not program constants).
MaxItems == 2
MaxPeers == 2
MaxAcceptErrs == 1

TopTasks == {"quic", "tcp", "udp", "unix", "stats"}
Listeners == {"tcp", "unix"}
Handlers == 1 .. MaxPeers
Items == 1 .. MaxItems

\* Receiver<Stream> clones: the one main keeps, the one moved into the
\* acceptor task, and one per connection handler.
RxMain == <<"main", 0>>
RxQuic == <<"quic", 0>>
RxHandler(h) == <<"handler", h>>

VARIABLES
    cfg,            \* tcp_listen / udp_listen / unix_listen is Some
    mainPc,         \* position of main
    mainResult,     \* "none" | "ConfigErr" | "EndpointErr" | "Ok"
    chanMade,       \* flume::unbounded() has been called
    queue,          \* content of the channel, a sequence of item ids
    senders,        \* live Sender<Stream> clones, by holder
    receivers,      \* live Receiver<Stream> clones, by holder
    endpoint,       \* "none" | "open" | "closed"
    bound,          \* sockets that have been bound
    tstate,         \* state of each top-level task
    abortReq,       \* JoinHandle::abort() has been called on the task
    firstDone,      \* the task whose completion select! observed
    shutdownCount,  \* how many times the code after select! was entered
    nextPeer,       \* number of handlers spawned so far, plus one
    hstate,         \* state of each connection handler
    held,           \* the item a handler has received and not yet paired
    connAlive,      \* the handler's QUIC connection is still alive
    herr,           \* why a handler ended
    hspin,          \* the handler has seen recv_async() return Err
    nstreams,       \* bidirectional streams opened on each connection
    nextItem,       \* number of items enqueued so far, plus one
    deqCount,       \* how many times each item was received from the channel
    lost,           \* items dropped by a failed open_bi()
    sessions,       \* forwarders spawned: a set of [item, peer, strm, st]
    acceptErrs      \* accept errors logged by the listeners

mainVars == <<cfg, mainPc, mainResult, firstDone, shutdownCount>>
chanVars == <<chanMade, queue, senders, receivers>>
taskVars == <<tstate, abortReq>>
handlerVars == <<nextPeer, hstate, held, connAlive, herr, hspin, nstreams>>
itemVars == <<nextItem, deqCount, lost, sessions>>
vars == <<mainVars, chanVars, endpoint, bound, taskVars, handlerVars, itemVars, acceptErrs>>

LiveStates == {"pending", "bind", "accept", "run"}
DoneStates == {"done_ok", "done_err", "panicked", "cancelled"}
Live(t) == tstate[t] \in LiveStates
Finished(t) == tstate[t] \in DoneStates

HLiveStates == {"accepting", "handshaking", "recv", "open"}
HServing == {"recv", "open"}
HLive(h) == hstate[h] \in HLiveStates

Init ==
    /\ cfg \in [tcp : BOOLEAN, udp : BOOLEAN, unix : BOOLEAN]
    /\ mainPc = "validate"
    /\ mainResult = "none"
    /\ chanMade = FALSE
    /\ queue = <<>>
    /\ senders = {}
    /\ receivers = {}
    /\ endpoint = "none"
    /\ bound = {}
    /\ tstate = [t \in TopTasks |-> "unspawned"]
    /\ abortReq = [t \in TopTasks |-> FALSE]
    /\ firstDone = "none"
    /\ shutdownCount = 0
    /\ nextPeer = 1
    /\ hstate = [h \in Handlers |-> "unspawned"]
    /\ held = [h \in Handlers |-> 0]
    /\ connAlive = [h \in Handlers |-> FALSE]
    /\ herr = [h \in Handlers |-> "none"]
    /\ hspin = [h \in Handlers |-> FALSE]
    /\ nstreams = [h \in Handlers |-> 0]
    /\ nextItem = 1
    /\ deqCount = [i \in Items |-> 0]
    /\ lost = {}
    /\ sessions = {}
    /\ acceptErrs = 0

----------------------------------------------------------------------------
\* ReverseProxyServerSubCommand::main

\* A validation that also lets a lone udp_listen through.
NoListenerAnyFamily(c) == ~c.tcp /\ ~c.udp /\ ~c.unix

\* self.tcp_listen.is_none() && self.unix_listen.is_none()
NoListener(c) == ~c.tcp /\ ~c.unix

\* if .. { anyhow::bail!("specify tcp_listen or socket_listen or both"); }
MainValidate ==
    /\ mainPc = "validate"
    /\ IF NoListener(cfg)
       THEN /\ mainPc' = "returned"
            /\ mainResult' = "ConfigErr"
       ELSE /\ mainPc' = "make_queue"
            /\ mainResult' = mainResult
    /\ UNCHANGED <<cfg, firstDone, shutdownCount, chanVars, endpoint, bound,
                   taskVars, handlerVars, itemVars, acceptErrs>>

\* let (stream_sender, stream_receiver) = flume::unbounded::<Stream>();
MainMakeQueue ==
    /\ mainPc = "make_queue"
    /\ mainPc' = "build_endpoint"
    /\ chanMade' = TRUE
    /\ queue' = <<>>
    /\ senders' = {"main"}
    /\ receivers' = {RxMain}
    /\ UNCHANGED <<cfg, mainResult, firstDone, shutdownCount, endpoint, bound,
                   taskVars, handlerVars, itemVars, acceptErrs>>

\* let endpoint = build_server_endpoint(..)?;  endpoint.local_addr()?
\* An error returns from main and drops both channel halves.
MainBuildEndpoint(ok) ==
    /\ mainPc = "build_endpoint"
    /\ IF ok
       THEN /\ endpoint' = "open"
            /\ bound' = bound \cup {"quic"}
            /\ mainPc' = "spawn"
            /\ UNCHANGED <<mainResult, senders, receivers>>
       ELSE /\ mainPc' = "returned"
            /\ mainResult' = "EndpointErr"
            /\ senders' = {}
            /\ receivers' = {}
            /\ UNCHANGED <<endpoint, bound>>
    /\ UNCHANGED <<cfg, firstDone, shutdownCount, chanMade, queue,
                   taskVars, handlerVars, itemVars, acceptErrs>>

\* A spawn that moves stream_receiver into the acceptor instead of a clone.
MainSpawnTasksMoveRx ==
    /\ mainPc = "spawn"
    /\ mainPc' = "select"
    /\ tstate' = [t \in TopTasks |->
                    CASE t = "quic" -> "accept"
                      [] t = "stats" -> "run"
                      [] OTHER -> IF cfg[t] THEN "bind" ELSE "pending"]
    /\ receivers' = {RxQuic}
    /\ senders' = (IF cfg.unix THEN {"unix"} ELSE {"main"})
                     \cup (IF cfg.tcp THEN {"tcp"} ELSE {})
    /\ UNCHANGED <<cfg, mainResult, firstDone, shutdownCount, chanMade, queue,
                   endpoint, bound, abortReq, handlerVars, itemVars,
                   acceptErrs>>

\* Placeholders that are ready at once instead of std::future::pending().
MainSpawnTasksReady ==
    /\ mainPc = "spawn"
    /\ mainPc' = "select"
    /\ tstate' = [t \in TopTasks |->
                    CASE t = "quic" -> "accept"
                      [] t = "stats" -> "run"
                      [] OTHER -> IF cfg[t] THEN "bind" ELSE "done_ok"]
    /\ receivers' = receivers \cup {RxQuic}
    /\ senders' = (IF cfg.unix THEN {"unix"} ELSE {"main"})
                     \cup (IF cfg.tcp THEN {"tcp"} ELSE {})
    /\ UNCHANGED <<cfg, mainResult, firstDone, shutdownCount, chanMade, queue,
                   endpoint, bound, abortReq, handlerVars, itemVars,
                   acceptErrs>>

\* Lines 82-177, which run without an await: tokio::spawn of the acceptor
\* (with clones of the endpoint and of stream_receiver), of the TCP listener
\* (with a clone of stream_sender) or std::future::pending(), of the UDP stub
\* or pending(), of the Unix listener (into which stream_sender itself is
\* moved) or pending(), and counts.spawn_stats_loop().
MainSpawnTasks ==
    /\ mainPc = "spawn"
    /\ mainPc' = "select"
    /\ tstate' = [t \in TopTasks |->
                    CASE t = "quic" -> "accept"
                      [] t = "stats" -> "run"
                      [] OTHER -> IF cfg[t] THEN "bind" ELSE "pending"]
    /\ receivers' = receivers \cup {RxQuic}
    /\ senders' = (IF cfg.unix THEN {"unix"} ELSE {"main"})
                     \cup (IF cfg.tcp THEN {"tcp"} ELSE {})
    /\ UNCHANGED <<cfg, mainResult, firstDone, shutdownCount, chanMade, queue,
                   endpoint, bound, abortReq, handlerVars, itemVars,
                   acceptErrs>>

\* A select! arm that goes on to the aborts without closing the endpoint.
MainSelectNoClose(t) ==
    /\ mainPc = "select"
    /\ Finished(t)
    /\ mainPc' = "abort"
    /\ firstDone' = t
    /\ shutdownCount' = shutdownCount + 1
    /\ UNCHANGED <<cfg, mainResult, chanVars, endpoint, bound, taskVars,
                   handlerVars, itemVars, acceptErrs>>

\* select! { x = &mut .._handle => info!(..) }: one branch whose JoinHandle
\* is ready (Ok, Err or JoinError) is taken; then
\* endpoint.close(0u32.into(), b"server done"), which closes every connection
\* of the endpoint
MainSelectClose(t) ==
    /\ mainPc = "select"
    /\ Finished(t)
    /\ mainPc' = "abort"
    /\ firstDone' = t
    /\ shutdownCount' = shutdownCount + 1
    /\ endpoint' = "closed"
    /\ connAlive' = [h \in Handlers |-> FALSE]
    /\ UNCHANGED <<cfg, mainResult, chanVars, bound, taskVars, nextPeer,
                   hstate, held, herr, hspin, nstreams, itemVars, acceptErrs>>

\* A return that propagates the error or panic of the task select! observed.
MainAbortReturnPropagate ==
    /\ mainPc = "abort"
    /\ mainPc' = "returned"
    /\ abortReq' = [t \in TopTasks |-> TRUE]
    /\ mainResult' = IF tstate[firstDone] \in {"done_err", "panicked"}
                        THEN "TaskErr" ELSE "Ok"
    /\ senders' = senders \ {"main"}
    /\ receivers' = receivers \ {RxMain}
    /\ UNCHANGED <<cfg, firstDone, shutdownCount, chanMade, queue, endpoint,
                   bound, tstate, handlerVars, itemVars, acceptErrs>>

\* quic_endpoint_handle.abort(); tcp_listener_handle.abort();
\* udp_listener_handle.abort(); unix_listener_handle.abort();
\* stats_handle.abort(); abort() only requests the cancellation.  Then
\* Ok(()): the locals of main (its Sender, unless it was moved into the Unix
\* listener, and its Receiver) are dropped
MainAbortReturn ==
    /\ mainPc = "abort"
    /\ mainPc' = "returned"
    /\ abortReq' = [t \in TopTasks |-> TRUE]
    /\ mainResult' = "Ok"
    /\ senders' = senders \ {"main"}
    /\ receivers' = receivers \ {RxMain}
    /\ UNCHANGED <<cfg, firstDone, shutdownCount, chanMade, queue, endpoint,
                   bound, tstate, handlerVars, itemVars, acceptErrs>>

----------------------------------------------------------------------------
\* Top-level tasks

Aborted == {t \in TopTasks : abortReq[t] /\ Live(t)}

\* The five aborts are issued back to back.  Some time later the runtime
\* drops the aborted tasks that have not completed, instead of polling them
\* again; the channel halves they captured are dropped with them.
TaskCancel ==
    /\ Aborted # {}
    /\ tstate' = [t \in TopTasks |-> IF t \in Aborted THEN "cancelled" ELSE tstate[t]]
    /\ senders' = senders \ Aborted
    /\ receivers' = receivers \ {<<t, 0>> : t \in Aborted}
    /\ UNCHANGED <<mainVars, chanMade, queue, endpoint, bound, abortReq,
                   handlerVars, itemVars, acceptErrs>>

\* An acceptor that awaits each handshake before it accepts again.
AcceptorAcceptSerial ==
    /\ tstate["quic"] = "accept"
    /\ endpoint = "open"
    /\ nextPeer <= MaxPeers
    /\ \A h \in Handlers : hstate[h] \notin {"accepting", "handshaking"}
    /\ hstate' = [hstate EXCEPT ![nextPeer] = "accepting"]
    /\ connAlive' = [connAlive EXCEPT ![nextPeer] = TRUE]
    /\ receivers' = receivers \cup {RxHandler(nextPeer)}
    /\ nextPeer' = nextPeer + 1
    /\ UNCHANGED <<mainVars, chanMade, queue, senders, endpoint, bound,
                   taskVars, held, herr, hspin, nstreams, itemVars, acceptErrs>>

\* while let Some(conn) = endpoint.accept().await {
\*     tokio::spawn(handle_quic_connection(conn, stream_receiver.clone(), ..)) }
AcceptorAccept ==
    /\ tstate["quic"] = "accept"
    /\ endpoint = "open"
    /\ nextPeer <= MaxPeers
    /\ hstate' = [hstate EXCEPT ![nextPeer] = "accepting"]
    /\ connAlive' = [connAlive EXCEPT ![nextPeer] = TRUE]
    /\ receivers' = receivers \cup {RxHandler(nextPeer)}
    /\ nextPeer' = nextPeer + 1
    /\ UNCHANGED <<mainVars, chanMade, queue, senders, endpoint, bound,
                   taskVars, held, herr, hspin, nstreams, itemVars, acceptErrs>>

\* endpoint.accept() returned None (the endpoint was closed, or its driver is
\* gone): the while-let ends and the acceptor task returns
AcceptorEnd ==
    /\ tstate["quic"] = "accept"
    /\ tstate' = [tstate EXCEPT !["quic"] = "done_ok"]
    /\ receivers' = receivers \ {RxQuic}
    /\ UNCHANGED <<mainVars, chanMade, queue, senders, endpoint, bound,
                   abortReq, handlerVars, itemVars, acceptErrs>>

\* A bind whose error is swallowed: the task stays alive without a socket.
ListenerBindSwallow(l, ok) ==
    /\ tstate[l] = "bind"
    /\ IF ok
       THEN /\ tstate' = [tstate EXCEPT ![l] = "accept"]
            /\ bound' = bound \cup {l}
       ELSE /\ tstate' = [tstate EXCEPT ![l] = "pending"]
            /\ bound' = bound
    /\ UNCHANGED <<mainVars, chanVars, endpoint, abortReq, handlerVars,
                   itemVars, acceptErrs>>

\* TcpListener::bind(listen_addr).await?  /  UnixListener::bind(path)?
ListenerBind(l, ok) ==
    /\ tstate[l] = "bind"
    /\ IF ok
       THEN /\ tstate' = [tstate EXCEPT ![l] = "accept"]
            /\ bound' = bound \cup {l}
            /\ senders' = senders
       ELSE /\ tstate' = [tstate EXCEPT ![l] = "done_err"]
            /\ bound' = bound
            /\ senders' = senders \ {l}
    /\ UNCHANGED <<mainVars, chanMade, queue, receivers, endpoint, abortReq,
                   handlerVars, itemVars, acceptErrs>>

\* A listener that sends each accepted connection to the channel twice.
ListenerAcceptOkTwice(l) ==
    /\ tstate[l] = "accept"
    /\ nextItem <= MaxItems
    /\ IF receivers # {}
       THEN /\ queue' = Append(Append(queue, nextItem), nextItem)
            /\ nextItem' = nextItem + 1
            /\ UNCHANGED <<tstate, senders>>
       ELSE /\ tstate' = [tstate EXCEPT ![l] = "done_err"]
            /\ senders' = senders \ {l}
            /\ UNCHANGED <<queue, nextItem>>
    /\ UNCHANGED <<mainVars, chanMade, receivers, endpoint, bound, abortReq,
                   handlerVars, deqCount, lost, sessions, acceptErrs>>

\* A send on a channel made with flume::bounded(1): it waits while the
\* channel is full.
ListenerAcceptOkBounded(l) ==
    /\ tstate[l] = "accept"
    /\ nextItem <= MaxItems
    /\ Len(queue) < 1
    /\ IF receivers # {}
       THEN /\ queue' = Append(queue, nextItem)
            /\ nextItem' = nextItem + 1
            /\ UNCHANGED <<tstate, senders>>
       ELSE /\ tstate' = [tstate EXCEPT ![l] = "done_err"]
            /\ senders' = senders \ {l}
            /\ UNCHANGED <<queue, nextItem>>
    /\ UNCHANGED <<mainVars, chanMade, receivers, endpoint, bound, abortReq,
                   handlerVars, deqCount, lost, sessions, acceptErrs>>

\* Ok((stream, _)) => stream_sender.send_async(Stream::Tcp(stream)).await?
\* The send on the unbounded channel fails only when no receiver is left.
ListenerAcceptOk(l) ==
    /\ tstate[l] = "accept"
    /\ nextItem <= MaxItems
    /\ IF receivers # {}
       THEN /\ queue' = Append(queue, nextItem)
            /\ nextItem' = nextItem + 1
            /\ UNCHANGED <<tstate, senders>>
       ELSE /\ tstate' = [tstate EXCEPT ![l] = "done_err"]
            /\ senders' = senders \ {l}
            /\ UNCHANGED <<queue, nextItem>>
    /\ UNCHANGED <<mainVars, chanMade, receivers, endpoint, bound, abortReq,
                   handlerVars, deqCount, lost, sessions, acceptErrs>>

\* An accept error that is propagated with `?` and ends the listener.
ListenerAcceptErrFatal(l) ==
    /\ tstate[l] = "accept"
    /\ acceptErrs < MaxAcceptErrs
    /\ acceptErrs' = acceptErrs + 1
    /\ tstate' = [tstate EXCEPT ![l] = "done_err"]
    /\ senders' = senders \ {l}
    /\ UNCHANGED <<mainVars, chanMade, queue, receivers, endpoint, bound,
                   abortReq, handlerVars, itemVars>>

\* Err(err) => error!(?err, "tcp accept failed")
ListenerAcceptErr(l) ==
    /\ tstate[l] = "accept"
    /\ acceptErrs < MaxAcceptErrs
    /\ acceptErrs' = acceptErrs + 1
    /\ UNCHANGED <<mainVars, chanVars, endpoint, bound, taskVars, handlerVars,
                   itemVars>>

\* A UDP task that serves after a successful bind instead of todo!().
UdpBindServe(ok) ==
    /\ tstate["udp"] = "bind"
    /\ IF ok
       THEN /\ tstate' = [tstate EXCEPT !["udp"] = "run"]
            /\ bound' = bound \cup {"udp"}
       ELSE /\ tstate' = [tstate EXCEPT !["udp"] = "done_err"]
            /\ bound' = bound
    /\ UNCHANGED <<mainVars, chanVars, endpoint, abortReq, handlerVars,
                   itemVars, acceptErrs>>

\* UdpSocket::bind(listen_addr).await?; .. todo!(..)
UdpBind(ok) ==
    /\ tstate["udp"] = "bind"
    /\ IF ok
       THEN /\ tstate' = [tstate EXCEPT !["udp"] = "panicked"]
            /\ bound' = bound \cup {"udp"}
       ELSE /\ tstate' = [tstate EXCEPT !["udp"] = "done_err"]
            /\ bound' = bound
    /\ UNCHANGED <<mainVars, chanVars, endpoint, abortReq, handlerVars,
                   itemVars, acceptErrs>>

\* The stats loop is outside this file; its task may end.
StatsEnd ==
    /\ tstate["stats"] = "run"
    /\ tstate' = [tstate EXCEPT !["stats"] = "done_ok"]
    /\ UNCHANGED <<mainVars, chanVars, endpoint, bound, abortReq, handlerVars,
                   itemVars, acceptErrs>>

----------------------------------------------------------------------------
\* handle_quic_connection, one detached task per inbound connection; nothing
\* holds its JoinHandle, so nothing ever aborts it.

\* The handler's task returns: its Receiver clone and its connection are dropped.
HandlerReturn(h, why) ==
    /\ hstate' = [hstate EXCEPT ![h] = "closed"]
    /\ herr' = [herr EXCEPT ![h] = why]
    /\ receivers' = receivers \ {RxHandler(h)}

\* match conn_a.into_0rtt() { Ok((conn_a, _)) => conn_a, Err(conn_a) => timeout(..) }
Handler0Rtt(h, ok) ==
    /\ hstate[h] = "accepting"
    /\ hstate' = [hstate EXCEPT ![h] = IF ok THEN "recv" ELSE "handshaking"]
    /\ UNCHANGED <<mainVars, chanVars, endpoint, bound, taskVars, nextPeer,
                   held, connAlive, herr, hspin, nstreams, itemVars, acceptErrs>>

\* timeout(Duration::from_secs(30), conn_a).await?? yields the connection
HandlerHandshakeOk(h) ==
    /\ hstate[h] = "handshaking"
    /\ connAlive[h]
    /\ hstate' = [hstate EXCEPT ![h] = "recv"]
    /\ UNCHANGED <<mainVars, chanVars, endpoint, bound, taskVars, nextPeer,
                   held, connAlive, herr, hspin, nstreams, itemVars, acceptErrs>>

\* A handshake awaited inside the acceptor's loop: its error ends the acceptor.
HandlerHandshakeFailInline(h, why) ==
    /\ hstate[h] = "handshaking"
    /\ why = "conn" => ~connAlive[h]
    /\ hstate' = [hstate EXCEPT ![h] = "closed"]
    /\ herr' = [herr EXCEPT ![h] = why]
    /\ receivers' = receivers \ {RxHandler(h), RxQuic}
    /\ connAlive' = [connAlive EXCEPT ![h] = FALSE]
    /\ tstate' = [tstate EXCEPT !["quic"] = "done_err"]
    /\ UNCHANGED <<mainVars, chanMade, queue, senders, endpoint, bound,
                   abortReq, nextPeer, held, hspin, nstreams, itemVars,
                   acceptErrs>>

\* timeout(..).await??: Elapsed after 30 seconds ("timeout"), or the
\* connection attempt failed ("conn"); either error returns from the handler
HandlerHandshakeFail(h, why) ==
    /\ hstate[h] = "handshaking"
    /\ why = "conn" => ~connAlive[h]
    /\ HandlerReturn(h, why)
    /\ connAlive' = [connAlive EXCEPT ![h] = FALSE]
    /\ UNCHANGED <<mainVars, chanMade, queue, senders, endpoint, bound,
                   taskVars, nextPeer, held, hspin, nstreams, itemVars,
                   acceptErrs>>

\* A receive that hands out the head and leaves it in the channel.
RecvRestPeek(q) == q

\* What recv_async() leaves in the channel when it returns its head.
RecvRest(q) == Tail(q)

\* A receive that does not wait for the handshake to be confirmed.
HandlerRecvEarly(h) ==
    /\ hstate[h] \in {"handshaking", "recv"}
    /\ queue # <<>>
    /\ held' = [held EXCEPT ![h] = Head(queue)]
    /\ queue' = RecvRest(queue)
    /\ deqCount' = [deqCount EXCEPT ![Head(queue)] = @ + 1]
    /\ hstate' = [hstate EXCEPT ![h] = "open"]
    /\ UNCHANGED <<mainVars, chanMade, senders, receivers, endpoint, bound,
                   taskVars, nextPeer, connAlive, herr, hspin, nstreams,
                   nextItem, lost, sessions, acceptErrs>>

\* while let Ok(stream_b) = rx_b.recv_async().await {
HandlerRecv(h) ==
    /\ hstate[h] = "recv"
    /\ queue # <<>>
    /\ held' = [held EXCEPT ![h] = Head(queue)]
    /\ queue' = RecvRest(queue)
    /\ deqCount' = [deqCount EXCEPT ![Head(queue)] = @ + 1]
    /\ hstate' = [hstate EXCEPT ![h] = "open"]
    /\ UNCHANGED <<mainVars, chanMade, senders, receivers, endpoint, bound,
                   taskVars, nextPeer, connAlive, herr, hspin, nstreams,
                   nextItem, lost, sessions, acceptErrs>>

\* recv_async() returns Err (channel empty and every sender dropped): the
\* while-let ends and the enclosing `loop` starts it again
HandlerRecvDisconnected(h) ==
    /\ hstate[h] = "recv"
    /\ queue = <<>>
    /\ senders = {}
    /\ hspin' = [hspin EXCEPT ![h] = TRUE]
    /\ UNCHANGED <<mainVars, chanVars, endpoint, bound, taskVars, nextPeer,
                   hstate, held, connAlive, herr, nstreams, itemVars,
                   acceptErrs>>

\* let (tx_a, rx_a) = conn_a.open_bi().await?;  then
\* tokio::spawn(copy_bidirectional_with_compression(.., rx_a, tx_a, stream_b))
HandlerOpenBi(h) ==
    /\ hstate[h] = "open"
    /\ connAlive[h]
    /\ sessions' = sessions \cup {[item |-> held[h], peer |-> h,
                                   strm |-> nstreams[h] + 1, st |-> "running"]}
    /\ nstreams' = [nstreams EXCEPT ![h] = @ + 1]
    /\ held' = [held EXCEPT ![h] = 0]
    /\ hstate' = [hstate EXCEPT ![h] = "recv"]
    /\ UNCHANGED <<mainVars, chanVars, endpoint, bound, taskVars, nextPeer,
                   connAlive, herr, hspin, nextItem, deqCount, lost,
                   acceptErrs>>

\* A failed open_bi() that is logged, after which the loop goes on.
HandlerOpenBiFailContinue(h) ==
    /\ hstate[h] = "open"
    /\ ~connAlive[h]
    /\ hstate' = [hstate EXCEPT ![h] = "recv"]
    /\ herr' = [herr EXCEPT ![h] = "open"]
    /\ lost' = lost \cup {held[h]}
    /\ held' = [held EXCEPT ![h] = 0]
    /\ UNCHANGED <<mainVars, chanVars, endpoint, bound,
                   taskVars, nextPeer, connAlive, hspin, nstreams, nextItem,
                   deqCount, sessions, acceptErrs>>

\* A failed open_bi() whose handler sends stream_b back to the channel.
HandlerOpenBiFailRequeue(h) ==
    /\ hstate[h] = "open"
    /\ ~connAlive[h]
    /\ HandlerReturn(h, "open")
    /\ queue' = Append(queue, held[h])
    /\ held' = [held EXCEPT ![h] = 0]
    /\ UNCHANGED <<mainVars, chanMade, senders, endpoint, bound,
                   taskVars, nextPeer, connAlive, hspin, nstreams, nextItem,
                   deqCount, lost, sessions, acceptErrs>>

\* conn_a.open_bi().await? fails: the handler returns the error, and
\* stream_b, which it holds, is dropped
HandlerOpenBiFail(h) ==
    /\ hstate[h] = "open"
    /\ ~connAlive[h]
    /\ HandlerReturn(h, "open")
    /\ lost' = lost \cup {held[h]}
    /\ held' = [held EXCEPT ![h] = 0]
    /\ UNCHANGED <<mainVars, chanMade, queue, senders, endpoint, bound,
                   taskVars, nextPeer, connAlive, hspin, nstreams, nextItem,
                   deqCount, sessions, acceptErrs>>

\* The remote peer closes or loses its connection.
PeerClose(h) ==
    /\ HLive(h)
    /\ connAlive[h]
    /\ connAlive' = [connAlive EXCEPT ![h] = FALSE]
    /\ UNCHANGED <<mainVars, chanVars, endpoint, bound, taskVars, nextPeer,
                   hstate, held, herr, hspin, nstreams, itemVars, acceptErrs>>

\* A forwarder awaited by its handler: its error returns from the handler.
ForwarderEndAwaited(f, how) ==
    /\ f \in sessions
    /\ f.st = "running"
    /\ sessions' = (sessions \ {f}) \cup {[f EXCEPT !.st = how]}
    /\ IF how = "err" /\ HLive(f.peer)
       THEN /\ hstate' = [hstate EXCEPT ![f.peer] = "closed"]
            /\ herr' = [herr EXCEPT ![f.peer] = "forward"]
            /\ receivers' = receivers \ {RxHandler(f.peer)}
       ELSE UNCHANGED <<hstate, herr, receivers>>
    /\ UNCHANGED <<mainVars, chanMade, queue, senders, endpoint, bound,
                   taskVars, nextPeer, held, connAlive, hspin, nstreams,
                   nextItem, deqCount, lost, acceptErrs>>

\* The detached forwarder ends: inspect_ok traces the byte counts,
\* inspect_err logs the error; nobody awaits its JoinHandle.
ForwarderEnd(f, how) ==
    /\ f \in sessions
    /\ f.st = "running"
    /\ sessions' = (sessions \ {f}) \cup {[f EXCEPT !.st = how]}
    /\ UNCHANGED <<mainVars, chanVars, endpoint, bound, taskVars, handlerVars,
                   nextItem, deqCount, lost, acceptErrs>>

----------------------------------------------------------------------------
MainStep ==
    \/ MainValidate
    \/ MainMakeQueue
    \/ \E ok \in BOOLEAN : MainBuildEndpoint(ok)
    \/ MainSpawnTasks
    \/ \E t \in TopTasks : MainSelectClose(t)
    \/ MainAbortReturn

HandlerStep(h) ==
    \/ \E ok \in BOOLEAN : Handler0Rtt(h, ok)
    \/ HandlerHandshakeOk(h)
    \/ \E why \in {"timeout", "conn"} : HandlerHandshakeFail(h, why)
    \/ HandlerRecv(h)
    \/ HandlerRecvDisconnected(h)
    \/ HandlerOpenBi(h)
    \/ HandlerOpenBiFail(h)

Next ==
    \/ MainStep
    \/ TaskCancel
    \/ AcceptorAccept
    \/ AcceptorEnd
    \/ \E l \in Listeners, ok \in BOOLEAN : ListenerBind(l, ok)
    \/ \E l \in Listeners : ListenerAcceptOk(l)
    \/ \E l \in Listeners : ListenerAcceptErr(l)
    \/ \E ok \in BOOLEAN : UdpBind(ok)
    \/ StatsEnd
    \/ \E h \in Handlers : HandlerStep(h)
    \/ \E h \in Handlers : PeerClose(h)
    \/ \E f \in sessions, how \in {"ok", "err"} : ForwarderEnd(f, how)

Spec == Init /\ [][Next]_vars

\* The scheduler polls main whenever it can run.
FairSpec == Spec /\ WF_vars(MainStep)

----------------------------------------------------------------------------
\* Properties

QueueItems == {queue[k] : k \in 1 .. Len(queue)}
HeldItems == {held[h] : h \in Handlers} \ {0}
Serving(h) == hstate[h] \in HServing
ShutdownDone == mainPc = "returned" /\ mainResult = "Ok"

\* C1: every enqueued PendingStream is received from the channel at most
\* once and by one handler, is paired with at most one QUIC stream, is never
\* in the channel again after it was received, and no two forwarding sessions
\* hold the same PendingStream or the same QUIC stream.
C1_DeliveredAtMostOnce ==
    /\ \A i \in Items : deqCount[i] <= 1
    /\ \A i \in Items : deqCount[i] > 0 => i \notin QueueItems
    /\ \A j, k \in 1 .. Len(queue) : queue[j] = queue[k] => j = k
    /\ \A g, h \in Handlers : (held[g] # 0 /\ held[g] = held[h]) => g = h
    /\ \A i \in Items : Cardinality({f \in sessions : f.item = i}) <= 1
    /\ \A f \in sessions : f.item \notin HeldItems \cup QueueItems \cup lost
    /\ \A f, g \in sessions :
          (f.item = g.item \/ (f.peer = g.peer /\ f.strm = g.strm)) => f = g

\* Two handlers have each paired one item with a stream of their own.
C1_Witness ==
    \E f, g \in sessions : f.peer # g.peer /\ f.item # g.item

\* C2: while the channel is open and another peer is available (a handler in
\* Serving whose connection is alive), no accepted connection is dropped.
C2_NoDropWhilePeerAvailable ==
    [][\A i \in lost' \ lost :
          ~(senders # {} /\ \E h \in Handlers : Serving(h) /\ connAlive[h])]_vars

C3_Inv ==
    /\ shutdownCount <= 1
    /\ (shutdownCount = 1) = (mainPc = "abort" \/ ShutdownDone)
    /\ (endpoint = "closed") = (shutdownCount = 1)
    /\ shutdownCount = 1 => firstDone \in TopTasks /\ Finished(firstDone)
    /\ (\E t \in TopTasks : abortReq[t]) =>
          endpoint = "closed" /\ \A t \in TopTasks : abortReq[t]
    /\ ShutdownDone => \A t \in TopTasks : abortReq[t]

C3_Act ==
    \A t \in TopTasks :
        /\ Finished(t) => tstate'[t] = tstate[t]
        /\ tstate[t] # "unspawned" => tstate'[t] # "unspawned"
        /\ (tstate[t] = "unspawned" /\ tstate'[t] # "unspawned") => mainPc = "spawn"

\* C3: once a top-level task has completed, the supervisor closes the QUIC
\* endpoint, then aborts all five task handles and returns; the endpoint is
\* closed before any abort, no task is respawned, and the shutdown path is
\* entered at most once.
C3_ShutdownOnFirstCompletion ==
    /\ []C3_Inv
    /\ [][C3_Act]_vars
    /\ ((mainPc = "select" /\ \E t \in TopTasks : Finished(t)) ~> ShutdownDone)

\* The shutdown has run after the TCP listener completed.
C3_Witness ==
    /\ ShutdownDone
    /\ firstDone = "tcp"
    /\ endpoint = "closed"
    /\ \A t \in TopTasks : abortReq[t]

\* C4: after the shutdown path has run, once every top-level task has ended
\* and every handler that was still connecting or opening a stream has
\* finished that step, no connection handler and no forwarder is left running.
C4_NoTaskLeftRunning ==
    (/\ ShutdownDone
     /\ \A t \in TopTasks : ~Live(t)
     /\ \A h \in Handlers : hstate[h] \notin {"accepting", "handshaking", "open"}) =>
        /\ \A h \in Handlers : ~HLive(h)
        /\ \A f \in sessions : f.st # "running"

\* C5: a handler that has seen its receive fail on the disconnected channel
\* is Closed.
C5_DisconnectClosesHandler ==
    \A h \in Handlers : hspin[h] => hstate[h] = "closed"

\* C6: with neither tcp_listen nor unix_listen, main returns the
\* configuration error with no channel created, no endpoint built, no socket
\* bound and no task spawned.
C6_ConfigErrorFirst ==
    (~cfg.tcp /\ ~cfg.unix) =>
        /\ mainPc \in {"validate", "returned"}
        /\ mainPc = "returned" => mainResult = "ConfigErr"
        /\ ~chanMade
        /\ endpoint = "none"
        /\ bound = {}
        /\ \A t \in TopTasks : tstate[t] = "unspawned"
        /\ \A h \in Handlers : hstate[h] = "unspawned"
        /\ senders = {} /\ receivers = {}

\* main has returned the configuration error although udp_listen is set.
C6_Witness ==
    cfg.udp /\ ~cfg.tcp /\ ~cfg.unix /\ mainPc = "returned" /\ mainResult = "ConfigErr"

\* C7: a handshake that times out or is rejected ends only its own handler,
\* with an error and for good; in that step the acceptor, the listeners, the
\* other handlers, the channel and the supervisor are left as they are.
C7_HandshakeFailureContained ==
    [][\A h \in Handlers :
          /\ (hstate[h] = "handshaking" /\ hstate'[h] = "closed") =>
                /\ herr'[h] \in {"timeout", "conn"}
                /\ \A g \in Handlers \ {h} :
                      hstate'[g] = hstate[g] /\ held'[g] = held[g]
                         /\ connAlive'[g] = connAlive[g]
                /\ tstate' = tstate
                /\ abortReq' = abortReq
                /\ mainVars' = mainVars
                /\ endpoint' = endpoint
                /\ queue' = queue
                /\ senders' = senders
                /\ nextPeer' = nextPeer
          /\ hstate[h] = "closed" => hstate'[h] = "closed"]_vars

\* One handler has timed out while another one serves, the acceptor and a
\* listener run and the supervisor still waits in select!.
C7_Witness ==
    \E h, g \in Handlers :
        /\ hstate[h] = "closed" /\ herr[h] = "timeout"
        /\ Serving(g) /\ connAlive[g]
        /\ tstate["quic"] = "accept"
        /\ \E l \in Listeners : tstate[l] = "accept"
        /\ mainPc = "select"

\* C8: in the step in which a forwarder ends with an error, no handler
\* changes state, no top-level task completes and the supervisor does not
\* move; the handler that spawned it can still receive.
C8_ForwarderFailureContained ==
    [][(\E f \in sessions :
           f.st = "running" /\ [f EXCEPT !.st = "err"] \in sessions') =>
          /\ hstate' = hstate
          /\ held' = held
          /\ herr' = herr
          /\ tstate' = tstate
          /\ mainVars' = mainVars
          /\ queue' = queue]_vars

\* A handler whose first forwarder failed holds the next item, on a live
\* connection, while the supervisor still waits in select!.
C8_Witness ==
    \E f \in sessions, h \in Handlers :
        /\ f.peer = h /\ f.st = "err"
        /\ hstate[h] = "open" /\ held[h] > f.item /\ connAlive[h]
        /\ mainPc = "select"

\* C9: a failed accept enqueues nothing and leaves every listener where it
\* was, in its accept loop.
C9_AcceptErrorContinues ==
    [][acceptErrs' > acceptErrs =>
          /\ queue' = queue
          /\ nextItem' = nextItem
          /\ tstate' = tstate
          /\ senders' = senders]_vars

\* The only listener has logged an accept error, is in its accept loop and
\* can enqueue the next accepted connection.
C9_Witness ==
    /\ cfg.tcp /\ ~cfg.unix
    /\ acceptErrs > 0
    /\ tstate["tcp"] = "accept"
    /\ ~abortReq["tcp"]
    /\ ENABLED ListenerAcceptOk("tcp")

BindFailed(l) == tstate[l] = "done_err" /\ l \notin bound

\* C10: a listener whose bind failed has ended with an error and accepted
\* nothing, and its completion leads to the full shutdown: endpoint closed,
\* all five task handles aborted.
C10_BindFailureShutsDown ==
    /\ [](\A l \in Listeners :
            (cfg[l] /\ l \notin bound /\ tstate[l] \notin {"unspawned", "bind"}) =>
                /\ tstate[l] \in {"done_err", "cancelled"}
                /\ (\A m \in Listeners \ {l} : ~cfg[m]) =>
                      nextItem = 1 /\ acceptErrs = 0)
    /\ [][\A l \in Listeners :
            /\ (tstate[l] = "bind" /\ tstate'[l] = "done_err") =>
                  l \notin bound' /\ queue' = queue /\ nextItem' = nextItem
            /\ BindFailed(l) => BindFailed(l)']_vars
    /\ \A l \in Listeners :
          BindFailed(l) ~>
             (ShutdownDone /\ endpoint = "closed" /\ \A t \in TopTasks : abortReq[t])

\* The Unix listener failed to bind, which the supervisor observed first, and
\* the shutdown has run.
C10_Witness ==
    /\ BindFailed("unix")
    /\ firstDone = "unix"
    /\ ShutdownDone
    /\ endpoint = "closed"
    /\ \A t \in TopTasks : abortReq[t]

Families == {"tcp", "udp", "unix"}
Placeholder(t) == t \in Families /\ ~cfg[t] /\ tstate[t] # "unspawned"

C11_Act ==
    /\ \A t \in Families :
          (Placeholder(t) /\ tstate'[t] # tstate[t]) =>
              tstate[t] = "pending" /\ abortReq[t] /\ tstate'[t] = "cancelled"
    /\ (nextItem' # nextItem =>
          \E l \in Listeners : cfg[l] /\ tstate[l] = "accept")

\* C11: the task of a transport family that is not configured is a
\* placeholder that stays pending until it is cancelled after an abort: it
\* binds nothing, holds no sender, is never the task whose completion the
\* supervisor observed, and a step that enqueues is taken while a configured
\* listener is in its accept loop.
C11_PlaceholderNeverCompletes ==
    /\ [](\A t \in Families :
            Placeholder(t) =>
                /\ tstate[t] \in {"pending", "cancelled"}
                /\ (tstate[t] = "cancelled" => abortReq[t])
                /\ t \notin bound
                /\ t \notin senders
                /\ firstDone # t)
    /\ [][C11_Act]_vars

\* With tcp_listen only, the TCP listener has enqueued a connection, the
\* stats task has ended, the shutdown has run, and the UDP and Unix
\* placeholders, pending until then, are cancelled.
C11_Witness ==
    /\ cfg.tcp /\ ~cfg.udp /\ ~cfg.unix
    /\ nextItem > 1
    /\ ShutdownDone /\ firstDone = "stats"
    /\ tstate["udp"] = "cancelled" /\ tstate["unix"] = "cancelled"

\* The listener's send_async() returned Err: its task ended after its bind.
SendFailed(l) == tstate[l] = "done_err" /\ l \in bound

\* Connections the listeners have accepted: those enqueued and those whose
\* send failed.
Accepted == (nextItem - 1) + Cardinality({l \in Listeners : SendFailed(l)})

NoForwarding ==
    /\ sessions = {}
    /\ lost = {}
    /\ \A h \in Handlers : nstreams[h] = 0 /\ held[h] = 0
    /\ \A i \in Items : deqCount[i] = 0

\* C12 as stated: if no tunnel peer has connected, in every reachable state
\* the queue holds every accepted connection, nothing is forwarded, and a
\* listener in its accept loop can enqueue.
C12_QueueHoldsAllAccepted ==
    nextPeer = 1 =>
        /\ Len(queue) = Accepted
        /\ NoForwarding
        /\ \A l \in Listeners :
              (tstate[l] = "accept" /\ nextItem <= MaxItems) =>
                  ENABLED ListenerAcceptOk(l)

\* C12, amended: if no tunnel peer has connected, nothing is dequeued or
\* forwarded and the queue holds every enqueued connection; until main has
\* returned, every accepted connection is enqueued (no send fails), and a
\* listener in its accept loop is never blocked from enqueuing.
C12_QueueHoldsAllAcceptedUntilReturn ==
    nextPeer = 1 =>
        /\ Len(queue) = nextItem - 1
        /\ NoForwarding
        /\ mainPc # "returned" =>
              /\ Len(queue) = Accepted
              /\ \A l \in Listeners : ~SendFailed(l)
        /\ \A l \in Listeners :
              (tstate[l] = "accept" /\ nextItem <= MaxItems) =>
                  ENABLED ListenerAcceptOk(l)

\* No peer has connected, the supervisor waits in select!, and both accepted
\* connections sit in the queue.
C12_Witness ==
    /\ nextPeer = 1
    /\ mainPc = "select"
    /\ Len(queue) = MaxItems
    /\ \E l \in Listeners : tstate[l] = "accept"

Connecting(h) == hstate[h] \in {"accepting", "handshaking"}

C13_Act ==
    nextPeer' # nextPeer =>
        /\ nextPeer' = nextPeer + 1
        /\ hstate[nextPeer] = "unspawned"
        /\ hstate'[nextPeer] = "accepting"
        /\ \A g \in Handlers \ {nextPeer} :
              /\ hstate'[g] = hstate[g]
              /\ held'[g] = held[g]
              /\ connAlive'[g] = connAlive[g]
              /\ herr'[g] = herr[g]
        /\ tstate' = tstate
        /\ queue' = queue

\* C13: an acceptor that is in its accept loop on the open endpoint can
\* accept the next inbound attempt whatever the other handlers are doing, in
\* particular while some are still in Accepting or HandshakeConfirming, and
\* the accept starts one new handler in Accepting and leaves every other
\* handler as it is.
C13_AcceptorNeverBlocked ==
    /\ []((/\ tstate["quic"] = "accept"
           /\ endpoint = "open"
           /\ nextPeer <= MaxPeers) => ENABLED AcceptorAccept)
    /\ [][C13_Act]_vars

\* The second handler was started while the first one is still waiting for
\* its handshake, and the acceptor is back in its accept loop.
C13_Witness ==
    /\ hstate[1] = "handshaking"
    /\ hstate[2] = "accepting"
    /\ tstate["quic"] = "accept"
    /\ endpoint = "open"

SessionItems == {f.item : f \in sessions}

C14_Act ==
    /\ lost \subseteq lost'
    /\ \A h \in Handlers :
          (hstate[h] = "open" /\ hstate'[h] = "closed") =>
              /\ herr'[h] = "open"
              /\ held[h] \in lost' \ lost
              /\ held'[h] = 0
              /\ queue' = queue
              /\ sessions' = sessions
              /\ nstreams' = nstreams
              /\ \A g \in Handlers \ {h} : held'[g] = held[g] /\ hstate'[g] = hstate[g]
    /\ \A i \in lost' \ lost :
          \E h \in Handlers :
              held[h] = i /\ hstate[h] = "open" /\ hstate'[h] = "closed"

\* C14: when open_bi() fails the handler goes from Serving to Closed with
\* that error and the item it had dequeued is lost: from then on it is not in
\* the queue, not held by any handler and not owned by any forwarder, and
\* the failing step spawns no forwarder.
C14_OpenFailureLosesItem ==
    /\ [](\A i \in lost :
            /\ i \notin QueueItems \cup HeldItems \cup SessionItems
            /\ deqCount[i] = 1)
    /\ [](\A h \in Handlers :
            herr[h] = "open" => hstate[h] = "closed" /\ held[h] = 0)
    /\ [][C14_Act]_vars

\* A handler has ended on a failed open_bi() and its item is lost, while
\* another handler serves on a live connection.
C14_Witness ==
    \E h, g \in Handlers :
        /\ hstate[h] = "closed" /\ herr[h] = "open"
        /\ lost # {}
        /\ hstate[g] = "recv" /\ connAlive[g]
        /\ queue = <<>>

\* The order of handle_quic_connection: Accepting, then HandshakeConfirming
\* unless 0-RTT was accepted, then Serving (receive, open, receive, ..), then
\* Closed.
HandlerOrder ==
    {<<"unspawned", "accepting">>, <<"accepting", "handshaking">>,
     <<"accepting", "recv">>, <<"handshaking", "recv">>,
     <<"handshaking", "closed">>, <<"recv", "open">>, <<"open", "recv">>,
     <<"open", "closed">>}

C15_Act ==
    \A h \in Handlers :
        /\ hstate'[h] # hstate[h] => <<hstate[h], hstate'[h]>> \in HandlerOrder
        /\ (hstate[h] = "handshaking" /\ hstate'[h] = "recv") => connAlive[h]
        /\ (hstate[h] = "handshaking" /\ hstate'[h] = "closed") =>
              herr'[h] \in {"timeout", "conn"}
        /\ (held'[h] # 0 /\ held'[h] # held[h]) =>
              /\ hstate[h] = "recv"
              /\ held[h] = 0
              /\ queue # <<>> /\ held'[h] = Head(queue)
        /\ queue' # queue /\ Len(queue') < Len(queue) =>
              \E g \in Handlers : hstate[g] = "recv" /\ held'[g] = Head(queue)

\* C15: a handler moves Accepting -> HandshakeConfirming -> Serving ->
\* Closed, skipping HandshakeConfirming only when 0-RTT was accepted; an item
\* leaves the queue only into the hands of a handler that is in Serving; and
\* a handler whose handshake failed or timed out holds nothing, has opened
\* no stream and owns no forwarder.
C15_ServeOnlyAfterHandshake ==
    /\ [](\A h \in Handlers :
            /\ held[h] # 0 => hstate[h] = "open"
            /\ ~Serving(h) /\ hstate[h] # "closed" =>
                  nstreams[h] = 0 /\ \A f \in sessions : f.peer # h
            /\ herr[h] \in {"timeout", "conn"} =>
                  /\ hstate[h] = "closed"
                  /\ held[h] = 0
                  /\ nstreams[h] = 0
                  /\ \A f \in sessions : f.peer # h)
    /\ [][C15_Act]_vars

\* One handler timed out in its handshake and took nothing, while another
\* one, whose handshake was confirmed, has paired an item and an item is
\* still queued.
C15_Witness ==
    \E h, g \in Handlers :
        /\ herr[h] = "timeout" /\ nstreams[h] = 0
        /\ Serving(g) /\ nstreams[g] > 0
        /\ queue # <<>>

UdpFailed == tstate["udp"] \in {"done_err", "panicked"}

C16_Act ==
    tstate'["udp"] # tstate["udp"] =>
        /\ tstate["udp"] = "unspawned" => tstate'["udp"] \in {"bind", "pending"}
        /\ tstate["udp"] = "bind" =>
              /\ tstate'["udp"] \in {"done_err", "panicked", "cancelled"}
              /\ tstate'["udp"] = "cancelled" => abortReq["udp"]
              /\ queue' = queue /\ nextItem' = nextItem
              /\ tstate'["udp"] # "cancelled" => senders' = senders
        /\ tstate["udp"] \notin {"unspawned", "bind", "pending"} => FALSE

Enqueued == 1 .. (nextItem - 1)

\* In how many places item i is: positions of the queue, handlers holding
\* it, forwarders owning it, and the set of lost items.
Places(i) ==
    Cardinality({k \in 1 .. Len(queue) : queue[k] = i})
      + Cardinality({h \in Handlers : held[h] = i})
      + Cardinality({f \in sessions : f.item = i})
      + (IF i \in lost THEN 1 ELSE 0)

OpenFailed == {h \in Handlers : herr[h] = "open"}

C18_Act ==
    /\ \A h \in Handlers :
          /\ (held'[h] # held[h] /\ held'[h] # 0) => held[h] = 0
          /\ hstate[h] = "closed" => hstate'[h] = "closed" /\ held'[h] = 0
          /\ herr[h] = "open" => herr'[h] = "open"
    /\ Cardinality(lost') <= Cardinality(lost) + 1
    /\ lost' # lost =>
          Cardinality(OpenFailed') = Cardinality(OpenFailed) + 1

\* C18: a handler receives the next item only when it holds none (it holds
\* one exactly while it is opening the stream for it), each loss is the last
\* step of a handler that had lost nothing before, so there are exactly as
\* many lost items as handlers that ended on a failed stream open.
C18_AtMostOneHeldOneLost ==
    /\ [](\A h \in Handlers : (held[h] # 0) = (hstate[h] = "open"))
    /\ [](Cardinality(lost) = Cardinality(OpenFailed))
    /\ [](\A h \in OpenFailed : hstate[h] = "closed")
    /\ [][C18_Act]_vars

\* Two handlers have each lost the one item they held; both are Closed.
C18_Witness ==
    /\ Cardinality(lost) = 2
    /\ Cardinality(OpenFailed) = 2
    /\ \A h \in OpenFailed : hstate[h] = "closed" /\ held[h] = 0

\* main is between flume::unbounded() and its return.
MainRunning == mainPc \in {"build_endpoint", "spawn", "select", "abort"}

C19_Act ==
    mainPc' # "returned" =>
        \A l \in Listeners :
            /\ (tstate[l] = "accept" /\ tstate'[l] # "accept") => FALSE
            /\ (tstate[l] = "bind" /\ tstate'[l] # "bind") =>
                  \/ tstate'[l] = "accept" /\ l \in bound'
                  \/ tstate'[l] = "done_err" /\ l \notin bound'

\* C19: until main has returned it holds a Receiver, so no send of a
\* listener fails: every accepted connection is enqueued, and a configured
\* listener that has ended by then ended through its bind failure (none can
\* have been cancelled yet, the aborts being the last thing main does).
C19_QueueOpenWhileSupervisorRuns ==
    /\ [](MainRunning => RxMain \in receivers)
    /\ [](mainPc # "returned" =>
            /\ \A l \in Listeners : ~SendFailed(l)
            /\ Len(queue) + Cardinality(HeldItems) + Cardinality(sessions)
                  + Cardinality(lost) = Accepted
            /\ \A l \in Listeners :
                  (cfg[l] /\ Finished(l)) => BindFailed(l)
            /\ \A l \in Listeners :
                  (tstate[l] = "accept" /\ nextItem <= MaxItems) =>
                      /\ ENABLED ListenerAcceptOk(l)
                      /\ receivers # {})
    /\ [](\A l \in Listeners :
            (cfg[l] /\ Finished(l)) =>
                \/ BindFailed(l)
                \/ tstate[l] = "cancelled" /\ abortReq[l]
                \/ SendFailed(l) /\ mainPc = "returned")
    /\ [][C19_Act]_vars

\* The acceptor has ended and no handler is left, so main's Receiver is the
\* only one, and the TCP listener has enqueued a connection and is still in
\* its accept loop while main waits in select!.
C19_Witness ==
    /\ receivers = {RxMain}
    /\ tstate["quic"] = "done_ok"
    /\ mainPc = "select"
    /\ tstate["tcp"] = "accept"
    /\ queue # <<>>

\* C20: main's result is the configuration error only when no listener is
\* configured and the endpoint error only when the endpoint was not built;
\* once the endpoint is built, main returns only after the shutdown and its
\* result is Ok whether the task whose completion it observed returned Ok,
\* returned an error or panicked; the result, once set, does not change.
C20_ReturnsOkAfterShutdown ==
    /\ [](mainResult \in {"none", "ConfigErr", "EndpointErr", "Ok"})
    /\ []((mainPc = "returned") = (mainResult # "none"))
    /\ [](mainResult = "ConfigErr" => ~cfg.tcp /\ ~cfg.unix)
    /\ [](mainResult = "EndpointErr" => endpoint = "none" /\ firstDone = "none")
    /\ []((endpoint # "none" /\ mainPc = "returned") =>
            /\ mainResult = "Ok"
            /\ shutdownCount = 1
            /\ firstDone \in TopTasks
            /\ tstate[firstDone] \in {"done_ok", "done_err", "panicked"})
    /\ [][mainResult # "none" => mainResult' = mainResult]_vars

\* The UDP task panicked, the supervisor observed that completion, and main
\* has returned Ok.
C20_Witness ==
    /\ mainPc = "returned"
    /\ mainResult = "Ok"
    /\ firstDone = "udp"
    /\ tstate["udp"] = "panicked"
    /\ BindFailed("tcp")

====
